---- MODULE Spec2Model ----
(***************************************************************************)
(* A model of jsonvectorizer: the schema tree (Schema), its vectorizer     *)
(* subclass (JsonVectorizer) with extend, prune, fit and transform, and    *)
(* the list-of-lists sparse matrix primitive those write into.             *)
(*                                                                         *)
(* Conventions.  Python indices, rows and columns are kept 0-based as      *)
(* values; a TLA+ sequence s holds Python element k at s[k + 1].  A Python *)
(* dict is a function whose DOMAIN is its key set.  A joined path          *)
(* ':'.join(path) is kept as the sequence of its segments.                 *)
(***************************************************************************)
EXTENDS Integers, Sequences, FiniteSets, TLC

(***************************************************************************)
(* Bounds of the model.                                                    *)
(***************************************************************************)
MaxExtend == 2
MaxFit == 2
MaxBatch == 2
LilRows == 2
LilCols == 3
MaxPairs == 2

(***************************************************************************)
(* jsontype: the JsonType enum, in declaration order (sorted() of a set of *)
(* types sorts by these numbers).                                          *)
(***************************************************************************)
OBJECT == 0
ARRAY == 1
JNULL == 2
JBOOLEAN == 3
INTEGER == 4
NUMBER == 5
JSTRING == 6
TIMESTAMP == 7

JsonType == OBJECT..TIMESTAMP

\* Strings that datetime.strptime(doc, "%Y-%m-%dT%H:%M:%SZ") accepts.
TimestampStrings == {"2000-01-01T00:00:00Z"}

\* Documents are tagged by their Python type: [k |-> "dict", v |-> function],
\* [k |-> "list", v |-> sequence], [k |-> "none"], [k |-> "bool", v |-> ...],
\* [k |-> "int", v |-> ...], [k |-> "str", v |-> ...].
typeof(doc) ==
    CASE doc.k = "none" -> JNULL
      [] doc.k = "dict" -> OBJECT
      [] doc.k = "list" -> ARRAY
      [] doc.k = "bool" -> JBOOLEAN
      [] doc.k = "int" -> NUMBER
      [] doc.k = "float" -> NUMBER
      [] doc.k = "str" -> IF doc.v \in TimestampStrings THEN TIMESTAMP ELSE JSTRING

type2str(json_type) ==
    CASE json_type = OBJECT -> "object"
      [] json_type = ARRAY -> "array"
      [] json_type = JNULL -> "null"
      [] json_type = JBOOLEAN -> "boolean"
      [] json_type = INTEGER -> "integer"
      [] json_type = NUMBER -> "number"
      [] json_type = TIMESTAMP -> "timestamp"
      [] json_type = JSTRING -> "string"

str2type(s) ==
    CASE s = "object" -> OBJECT
      [] s = "array" -> ARRAY
      [] s = "null" -> JNULL
      [] s = "boolean" -> JBOOLEAN
      [] s = "integer" -> INTEGER
      [] s = "number" -> NUMBER
      [] s = "timestamp" -> TIMESTAMP
      [] s = "string" -> JSTRING

(***************************************************************************)
(* Python helpers.                                                         *)
(***************************************************************************)
\* sorted(set of JsonType): ascending enum order.
RECURSIVE SortedTypes(_)
SortedTypes(S) ==
    IF S = {} THEN <<>>
    ELSE LET m == CHOOSE x \in S : \A y \in S : x <= y
         IN <<m>> \o SortedTypes(S \ {m})

\* The property names of the documents, in lexicographic order.
NameOrder == <<"p", "q">>
Names == {NameOrder[i] : i \in DOMAIN NameOrder}

\* sorted(set of names): lexicographic order.
SortedNames(S) == SelectSeq(NameOrder, LAMBDA n : n \in S)

\* str(i) for a small non-negative integer.
IntStr == <<"0", "1", "2", "3", "4", "5", "6", "7", "8", "9">>

\* A path segment is [str |-> s] or, for a tuple item, [int |-> i].
StrSeg(s) == [str |-> s]
IntSeg(i) == [int |-> i]
IsStr(seg) == "str" \in DOMAIN seg

\* ':'.join(path) raises TypeError when a segment is an int.
JoinRaises(path) == \E i \in DOMAIN path : ~IsStr(path[i])
\* ':'.join(path), as the sequence of its segments.
Join(path) == [i \in DOMAIN path |-> path[i].str]
\* ':'.join(map(str, path)).
JoinStr(path) ==
    [i \in DOMAIN path |-> IF IsStr(path[i]) THEN path[i].str ELSE IntStr[path[i].int + 1]]

\* re.search(pattern, s) for a pattern that is one of the literals of Names:
\* none of them occurs inside "root", "any", a digit or ':', so the pattern is
\* found in the joined path exactly when it is one of its segments.
Search(pattern, s) == \E i \in DOMAIN s : s[i] = pattern

\* A pattern that is no regular expression: re.search raises re.error when it
\* is given it, whatever the string.
Malformed == "("
SearchRaises(pattern) == pattern = Malformed

\* hasmatch(s, patterns): its value when it returns, and whether it raises
\* (it tries the patterns in order and stops at the first that matches).
hasmatch(s, patterns) == \E i \in DOMAIN patterns : Search(patterns[i], s)

RECURSIVE hasmatch_raises(_, _)
\* hasmatch taking a malformed pattern for one that matches nothing.
hasmatch_raises_Never(s, patterns) == FALSE

hasmatch_raises(s, patterns) ==
    IF patterns = <<>> THEN FALSE
    ELSE IF SearchRaises(Head(patterns)) THEN TRUE
    ELSE IF Search(Head(patterns), s) THEN FALSE
    ELSE hasmatch_raises(s, Tail(patterns))

(***************************************************************************)
(* Schema / JsonVectorizer nodes.                                          *)
(***************************************************************************)
\* A node after __cinit__ and __init__ with schema={}: required is None
\* (required_none), pos and n_features are C ints (0).
NewNode(path, tuple_items) ==
    [path |-> path, tuple_items |-> tuple_items,
     type |-> {}, required_none |-> TRUE, required |-> {},
     properties |-> <<>>, items |-> <<>>,
     counts |-> <<>>, values |-> <<>>, vectorizers |-> <<>>,
     pos |-> 0, feature_names |-> <<>>, n_features |-> 0]

\* add_property(name, {}): a new child at path + (name,).
add_property(node, name) ==
    [node EXCEPT !.properties =
        [n \in DOMAIN node.properties \cup {name} |->
            IF n = name THEN NewNode(Append(node.path, StrSeg(name)), node.tuple_items)
            ELSE node.properties[n]]]

\* add_item({}): a new child at path + (len(items),) or path + ('any',).
add_item(node) ==
    LET seg == IF node.tuple_items THEN IntSeg(Len(node.items)) ELSE StrSeg("any")
    IN [node EXCEPT !.items =
            Append(node.items, NewNode(Append(node.path, seg), node.tuple_items))]

RECURSIVE AddProperties(_, _)
AddProperties(node, keys) ==
    IF keys = <<>> THEN node
    ELSE AddProperties(
            IF Head(keys) \in DOMAIN node.properties THEN node
            ELSE add_property(node, Head(keys)),
            Tail(keys))

RECURSIVE GrowItems(_, _)
GrowItems(node, n) ==
    IF Len(node.items) < n THEN GrowItems(add_item(node), n) ELSE node

\* Schema._extend_self with the required set overwritten by every object.
Schema_extend_self_Overwrite(node, doc, json_type) ==
    LET n1 == [node EXCEPT !.type = @ \cup {json_type}]
    IN CASE json_type = OBJECT ->
              LET n2 == AddProperties(n1, SortedNames(DOMAIN doc.v))
              IN [n2 EXCEPT !.required_none = FALSE, !.required = DOMAIN doc.v]
         [] json_type = ARRAY ->
              IF n1.tuple_items THEN GrowItems(n1, Len(doc.v))
              ELSE IF n1.items = <<>> THEN add_item(n1) ELSE n1
         [] OTHER -> n1

\* Schema._extend_self
Schema_extend_self(node, doc, json_type) ==
    LET n1 == [node EXCEPT !.type = @ \cup {json_type}]
    IN CASE json_type = OBJECT ->
              LET n2 == AddProperties(n1, SortedNames(DOMAIN doc.v))
              IN IF n2.required_none
                 THEN [n2 EXCEPT !.required_none = FALSE, !.required = DOMAIN doc.v]
                 ELSE [n2 EXCEPT !.required = @ \cap DOMAIN doc.v]
         [] json_type = ARRAY ->
              IF n1.tuple_items THEN GrowItems(n1, Len(doc.v))
              ELSE IF n1.items = <<>> THEN add_item(n1) ELSE n1
         [] OTHER -> n1

\* dict d with d[key] = value
DictSet(d, key, value) ==
    [x \in DOMAIN d \cup {key} |-> IF x = key THEN value ELSE d[x]]
\* dict d without key
DictDel(d, key) == [x \in DOMAIN d \ {key} |-> d[x]]

\* JsonVectorizer._extend_self
extend_self(node, doc, json_type) ==
    LET n1 == Schema_extend_self(node, doc, json_type)
        c == IF json_type \in DOMAIN n1.counts THEN n1.counts[json_type] ELSE 0
        n2 == [n1 EXCEPT !.counts = DictSet(@, json_type, c + 1)]
    IN IF json_type # OBJECT /\ json_type # ARRAY /\ json_type # JNULL
       THEN [n2 EXCEPT !.values =
                DictSet(@, json_type,
                    IF json_type \in DOMAIN n2.values
                    THEN Append(n2.values[json_type], doc)
                    ELSE <<doc>>)]
       ELSE n2

\* Schema._extend
RECURSIVE extend(_, _)
RECURSIVE ExtendShared(_, _)
\* The shared-mode loop of _extend stopping after the first element.
ExtendShared_FirstOnly(item, elems) ==
    IF elems = <<>> THEN item ELSE extend(item, Head(elems))

ExtendShared(item, elems) ==
    IF elems = <<>> THEN item ELSE ExtendShared(extend(item, Head(elems)), Tail(elems))

extend(node, doc) ==
    LET json_type == typeof(doc)
        n1 == extend_self(node, doc, json_type)
    IN CASE json_type = OBJECT ->
              [n1 EXCEPT !.properties =
                  [name \in DOMAIN n1.properties |->
                      IF name \in DOMAIN doc.v
                      THEN extend(n1.properties[name], doc.v[name])
                      ELSE n1.properties[name]]]
         [] json_type = ARRAY ->
              IF n1.tuple_items
              THEN [n1 EXCEPT !.items =
                      [i \in DOMAIN n1.items |->
                          IF i <= Len(doc.v) THEN extend(n1.items[i], doc.v[i])
                          ELSE n1.items[i]]]
              ELSE IF doc.v = <<>> THEN n1
                   ELSE [n1 EXCEPT !.items = <<ExtendShared(n1.items[1], doc.v)>>]
         [] OTHER -> n1

\* Schema.extend(docs) / the loop at the head of fit
RECURSIVE ExtendAll(_, _)
ExtendAll(node, docs) ==
    IF docs = <<>> THEN node ELSE ExtendAll(extend(node, Head(docs)), Tail(docs))

(***************************************************************************)
(* Pruning.  A call in progress is the record [node, paths, raised]: the   *)
(* node as mutated so far, the list built so far, and whether an exception *)
(* has propagated (the mutations made before it stay).                     *)
(***************************************************************************)
\* An entry of the list prune returns: 'path' or 'path -> type'.
NodeEntry(path) == [path |-> path]
TypeEntry(path, json_type) == [path |-> path, type |-> type2str(json_type)]

\* The body of the loop of _prune_self for one type that is dropped.
PruneType(node, json_type) ==
    LET n1 == [node EXCEPT !.type = @ \ {json_type},
                           !.counts = DictDel(@, json_type),
                           !.values = DictDel(@, json_type)]
    IN CASE json_type = OBJECT ->
              \* self.required.clear() raises AttributeError on None
              IF n1.required_none
              THEN [node |-> [n1 EXCEPT !.properties = <<>>], raised |-> TRUE]
              ELSE [node |-> [n1 EXCEPT !.properties = <<>>, !.required = {}],
                    raised |-> FALSE]
         [] json_type = ARRAY -> [node |-> [n1 EXCEPT !.items = <<>>], raised |-> FALSE]
         [] OTHER -> [node |-> n1, raised |-> FALSE]

RECURSIVE PruneSelfLoop(_, _, _, _)
\* _prune_self dropping the types counted up to and including min_f.
PruneSelfLoop_Inclusive(st, path, types, min_f) ==
    IF types = <<>> \/ st.raised THEN st
    ELSE LET json_type == Head(types)
         IN IF json_type \notin DOMAIN st.node.counts
            THEN [st EXCEPT !.raised = TRUE]
            ELSE IF st.node.counts[json_type] <= min_f
            THEN LET r == PruneType(st.node, json_type)
                 IN PruneSelfLoop(
                        [node |-> r.node,
                         paths |-> Append(st.paths, TypeEntry(path, json_type)),
                         raised |-> r.raised],
                        path, Tail(types), min_f)
            ELSE PruneSelfLoop(st, path, Tail(types), min_f)

PruneSelfLoop(st, path, types, min_f) ==
    IF types = <<>> \/ st.raised THEN st
    ELSE LET json_type == Head(types)
         IN IF json_type \notin DOMAIN st.node.counts
            THEN [st EXCEPT !.raised = TRUE]       \* KeyError
            ELSE IF st.node.counts[json_type] < min_f
            THEN LET r == PruneType(st.node, json_type)
                 IN PruneSelfLoop(
                        [node |-> r.node,
                         paths |-> Append(st.paths, TypeEntry(path, json_type)),
                         raised |-> r.raised],
                        path, Tail(types), min_f)
            ELSE PruneSelfLoop(st, path, Tail(types), min_f)

\* JsonVectorizer._prune_self
prune_self(node, min_f) ==
    IF JoinRaises(node.path) THEN [node |-> node, paths |-> <<>>, raised |-> TRUE]
    ELSE LET path == Join(node.path)
             st == PruneSelfLoop([node |-> node, paths |-> <<>>, raised |-> FALSE],
                                 path, SortedTypes(node.type), min_f)
         IN IF st.raised \/ st.node.type # {} THEN st
            ELSE [st EXCEPT !.paths = <<NodeEntry(path)>>]

\* del self.items[i] (i is 0-based)
DelItem(items, i) == SubSeq(items, 1, i) \o SubSeq(items, i + 2, Len(items))

\* A float min_f is [num, den], the proportion num / den; an int one is [int].
IsFloat(min_f) == "num" \in DOMAIN min_f

RECURSIVE SumCounts(_)
SumCounts(counts) ==
    IF DOMAIN counts = {} THEN 0
    ELSE LET t == CHOOSE x \in DOMAIN counts : TRUE
         IN counts[t] + SumCounts(DictDel(counts, t))

RECURSIVE prune_(_, _, _)
RECURSIVE PruneProperties(_, _, _, _)
RECURSIVE PruneItems(_, _, _, _)

\* JsonVectorizer.prune: a float min_f becomes int(min_f * sum(counts)).
prune(node, patterns, min_f) ==
    prune_(node, patterns,
           IF IsFloat(min_f) THEN (min_f.num * SumCounts(node.counts)) \div min_f.den
           ELSE min_f.int)

\* The loop of _prune over sorted(self.properties) leaving self.required as
\* it is when it deletes a property.
PruneProperties_KeepRequired(st, names, patterns, min_f) ==
    IF names = <<>> \/ st.raised THEN st
    ELSE LET name == Head(names)
             property_ == st.node.properties[name]
             path == Join(property_.path)
             r == prune(property_, patterns, [int |-> min_f])
             Drop(node) ==
                 [node EXCEPT !.properties = DictDel(@, name)]
             Keep(node) == [node EXCEPT !.properties[name] = r.node]
         IN IF hasmatch_raises(path, patterns)
            THEN [st EXCEPT !.raised = TRUE]       \* re.error
            ELSE IF hasmatch(path, patterns)
            THEN PruneProperties(
                    [st EXCEPT !.node = Drop(@), !.paths = Append(@, NodeEntry(path))],
                    Tail(names), patterns, min_f)
            ELSE IF r.raised
            THEN [st EXCEPT !.node = Keep(@), !.raised = TRUE]
            ELSE PruneProperties(
                    [st EXCEPT !.node = IF r.node.type = {} THEN Drop(@) ELSE Keep(@),
                               !.paths = @ \o r.paths],
                    Tail(names), patterns, min_f)

\* The loop of _prune over sorted(self.properties).
PruneProperties(st, names, patterns, min_f) ==
    IF names = <<>> \/ st.raised THEN st
    ELSE LET name == Head(names)
             property_ == st.node.properties[name]
             path == Join(property_.path)
             r == prune(property_, patterns, [int |-> min_f])
             Drop(node) ==
                 [node EXCEPT !.properties = DictDel(@, name), !.required = @ \ {name}]
             Keep(node) == [node EXCEPT !.properties[name] = r.node]
         IN IF hasmatch_raises(path, patterns)
            THEN [st EXCEPT !.raised = TRUE]       \* re.error
            ELSE IF hasmatch(path, patterns)
            THEN PruneProperties(
                    [st EXCEPT !.node = Drop(@), !.paths = Append(@, NodeEntry(path))],
                    Tail(names), patterns, min_f)
            ELSE IF r.raised
            THEN [st EXCEPT !.node = Keep(@), !.raised = TRUE]
            ELSE PruneProperties(
                    [st EXCEPT !.node = IF r.node.type = {} THEN Drop(@) ELSE Keep(@),
                               !.paths = @ \o r.paths],
                    Tail(names), patterns, min_f)

\* The loop of _prune over reversed(range(len(self.items))); i is 0-based and
\* the loop ends below 0.
PruneItems(st, i, patterns, min_f) ==
    IF i < 0 \/ st.raised THEN st
    ELSE LET item == st.node.items[i + 1]
             path == Join(item.path)
             r == prune(item, patterns, [int |-> min_f])
             Drop(node) == [node EXCEPT !.items = DelItem(@, i)]
             Keep(node) == [node EXCEPT !.items[i + 1] = r.node]
         IN IF JoinRaises(item.path)
            THEN [st EXCEPT !.raised = TRUE]       \* TypeError
            ELSE IF hasmatch_raises(path, patterns)
            THEN [st EXCEPT !.raised = TRUE]       \* re.error
            ELSE IF hasmatch(path, patterns)
            THEN PruneItems(
                    [st EXCEPT !.node = Drop(@), !.paths = Append(@, NodeEntry(path))],
                    i - 1, patterns, min_f)
            ELSE IF r.raised
            THEN [st EXCEPT !.node = Keep(@), !.raised = TRUE]
            ELSE PruneItems(
                    [st EXCEPT !.node = IF r.node.type = {} THEN Drop(@) ELSE Keep(@),
                               !.paths = @ \o r.paths],
                    i - 1, patterns, min_f)

\* JsonVectorizer._prune
prune_(node, patterns, min_f) ==
    LET s0 == prune_self(node, min_f)
        s1 == PruneProperties(s0, SortedNames(DOMAIN s0.node.properties), patterns, min_f)
    IN PruneItems(s1, Len(s1.node.items) - 1, patterns, min_f)

(***************************************************************************)
(* The extractors (jsonvectorizer.vectorizers), by their contract:         *)
(* fit(values, n_total, path) gives a fitted extractor or None, a fitted   *)
(* extractor has feature_names_ and transform(docs) gives one row of local *)
(* columns per document.  "Vocabulary" keeps one feature per distinct      *)
(* sample; "Frequent" does the same but gives None when the samples are    *)
(* fewer than n_total.                                                     *)
(***************************************************************************)
RECURSIVE Distinct(_)
Distinct(values) ==
    IF values = <<>> THEN <<>>
    ELSE LET rest == Distinct(SubSeq(values, 1, Len(values) - 1))
             last == values[Len(values)]
         IN IF \E i \in DOMAIN rest : rest[i] = last THEN rest ELSE Append(rest, last)

\* Vectorizer(*args, **kwargs).fit(values, n_total=n_total, path=path)
VectorizerFit(Vectorizer, values, n_total) ==
    IF Vectorizer = "Frequent" /\ Len(values) < n_total
    THEN [none |-> TRUE]
    ELSE [none |-> FALSE, feature_names_ |-> Distinct(values)]

\* vectorizer.transform(docs_).nonzero(): the (row, column) pairs, row-major.
RECURSIVE VectorizerTransform(_, _, _)
VectorizerTransform(vectorizer, docs_, r) ==
    IF r >= Len(docs_) THEN <<>>
    ELSE LET fn == vectorizer.feature_names_
             hit == {c \in 0..(Len(fn) - 1) : fn[c + 1] = docs_[r + 1]}
         IN (IF hit = {} THEN <<>> ELSE <<[r |-> r, c |-> CHOOSE c \in hit : TRUE]>>)
            \o VectorizerTransform(vectorizer, docs_, r + 1)

(***************************************************************************)
(* Fitting.                                                                *)
(***************************************************************************)
\* Whether one entry of the rule list accepts (json_type, path).
RuleAccepts(d, json_type, path) ==
    /\ "type" \in DOMAIN d =>
          IF "str" \in DOMAIN d.type THEN type2str(json_type) = d.type.str
          ELSE \E i \in DOMAIN d.type.list : d.type.list[i] = type2str(json_type)
    /\ "pattern" \in DOMAIN d => Search(d.pattern, path)

RECURSIVE get_vectorizer(_, _, _)
\* get_vectorizer returning the last matching entry.
get_vectorizer_LastMatch(vectorizers, json_type, path) ==
    IF vectorizers = <<>> THEN [none |-> TRUE]
    ELSE LET later == get_vectorizer(Tail(vectorizers), json_type, path)
         IN IF ~later.none THEN later
            ELSE IF RuleAccepts(Head(vectorizers), json_type, path)
            THEN [none |-> FALSE, vectorizer |-> Head(vectorizers).vectorizer]
            ELSE [none |-> TRUE]

\* get_vectorizer: the first matching entry, or None.
get_vectorizer(vectorizers, json_type, path) ==
    IF vectorizers = <<>> THEN [none |-> TRUE]
    ELSE IF RuleAccepts(Head(vectorizers), json_type, path)
    THEN [none |-> FALSE, vectorizer |-> Head(vectorizers).vectorizer]
    ELSE get_vectorizer(Tail(vectorizers), json_type, path)

\* Whether get_vectorizer raises: it reaches an entry whose type filter
\* accepts the type and whose pattern is malformed.
RECURSIVE get_vectorizer_raises(_, _, _)
get_vectorizer_raises(vectorizers, json_type, path) ==
    IF vectorizers = <<>> THEN FALSE
    ELSE LET d == Head(vectorizers)
             typed == [vectorizer |-> d.vectorizer] @@
                      (IF "type" \in DOMAIN d THEN [type |-> d.type] ELSE <<>>)
         IN IF ~RuleAccepts(typed, json_type, path)
            THEN get_vectorizer_raises(Tail(vectorizers), json_type, path)
            ELSE IF "pattern" \in DOMAIN d /\ SearchRaises(d.pattern) THEN TRUE
            ELSE IF RuleAccepts(d, json_type, path) THEN FALSE
            ELSE get_vectorizer_raises(Tail(vectorizers), json_type, path)

\* Feature names: '{path} is {type}', '{path} has property "{name}"' and
\* path + ' ' + fn.
IsName(path, json_type) == [kind |-> "is", path |-> path, type |-> type2str(json_type)]
HasName(path, name) == [kind |-> "has", path |-> path, name |-> name]
VecName(path, fn) == [kind |-> "vec", path |-> path, fn |-> fn]

\* The names of the optional properties, in sorted order.
OptionalNames(node) ==
    SelectSeq(SortedNames(DOMAIN node.properties), LAMBDA name : name \notin node.required)

\* The body of the second loop of _fit_self for one type: the node and
\* whether hasmatch raised (the names appended before it stay).
FitType(node, json_type, path, n_total, vectorizers, ignore_patterns) ==
    LET opt == OptionalNames(node)
        n1 == [node EXCEPT !.feature_names =
                  IF Cardinality(node.type) > 1
                  THEN Append(@, IsName(path, json_type)) ELSE @]
        n2 == [n1 EXCEPT !.feature_names =
                  IF json_type = OBJECT
                  THEN @ \o [i \in DOMAIN opt |-> HasName(path, opt[i])] ELSE @]
        Fitted(n, vectorizer) ==
            IF vectorizer.none THEN n
            ELSE [n EXCEPT
                    !.vectorizers = DictSet(@, json_type, vectorizer),
                    !.feature_names =
                        @ \o [i \in DOMAIN vectorizer.feature_names_ |->
                                 VecName(path, vectorizer.feature_names_[i])]]
        Extracted(n, rule) ==
            IF /\ ~hasmatch(path, ignore_patterns)
               /\ ~rule.none
               /\ json_type \in DOMAIN n.values
            THEN Fitted(n, VectorizerFit(rule.vectorizer, n.values[json_type], n_total))
            ELSE n
        Done(n) ==
            IF hasmatch_raises(path, ignore_patterns)
            THEN [node |-> n, raised |-> TRUE]
            ELSE [node |-> [Extracted(n, get_vectorizer(vectorizers, json_type, path))
                               EXCEPT !.values = DictDel(@, json_type)],
                  raised |-> FALSE]
    IN Done(n2)

RECURSIVE FitSelfLoop(_, _, _, _, _, _)
FitSelfLoop(st, types, path, n_total, vectorizers, ignore_patterns) ==
    IF types = <<>> \/ st.raised THEN st
    ELSE FitSelfLoop(
            FitType(st.node, Head(types), path, n_total, vectorizers, ignore_patterns),
            Tail(types), path, n_total, vectorizers, ignore_patterns)

\* JsonVectorizer._fit_self: the node, the returned position and whether it
\* raised.  The first loop looks up the rule of every type before anything
\* is written.
fit_self(node, pos, n_total, vectorizers, ignore_patterns) ==
    LET path == JoinStr(node.path)
        Returned_(st) == [node |-> st.node, pos |-> pos + Len(st.node.feature_names),
                          raised |-> st.raised]
    IN IF \E t \in node.type : get_vectorizer_raises(vectorizers, t, path)
       THEN [node |-> node, pos |-> pos, raised |-> TRUE]
       ELSE Returned_(FitSelfLoop([node |-> [node EXCEPT !.pos = pos], raised |-> FALSE],
                                  SortedTypes(node.type), path,
                                  n_total, vectorizers, ignore_patterns))

\* JsonVectorizer.feature_names_
RECURSIVE feature_names_(_)
RECURSIVE FeatureNamesOfProperties(_, _)
RECURSIVE FeatureNamesOfItems(_, _)
FeatureNamesOfProperties(node, names) ==
    IF names = <<>> THEN <<>>
    ELSE feature_names_(node.properties[Head(names)])
         \o FeatureNamesOfProperties(node, Tail(names))

FeatureNamesOfItems(node, i) ==
    IF i >= Len(node.items) THEN <<>>
    ELSE feature_names_(node.items[i + 1]) \o FeatureNamesOfItems(node, i + 1)

feature_names_(node) ==
    node.feature_names
    \o FeatureNamesOfProperties(node, SortedNames(DOMAIN node.properties))
    \o FeatureNamesOfItems(node, 0)

\* JsonVectorizer._fit: the node, the returned position and whether it raised.
RECURSIVE fit_(_, _, _, _, _)
RECURSIVE FitProperties(_, _, _, _, _)
RECURSIVE FitItems(_, _, _, _, _)
FitProperties(st, names, n_total, vectorizers, ignore_patterns) ==
    IF names = <<>> \/ st.raised THEN st
    ELSE LET Put(r) == [node |-> [st.node EXCEPT !.properties[Head(names)] = r.node],
                        pos |-> r.pos, raised |-> r.raised]
         IN FitProperties(
                Put(fit_(st.node.properties[Head(names)], st.pos,
                         n_total, vectorizers, ignore_patterns)),
                Tail(names), n_total, vectorizers, ignore_patterns)

FitItems(st, i, n_total, vectorizers, ignore_patterns) ==
    IF i >= Len(st.node.items) \/ st.raised THEN st
    ELSE LET Put(r) == [node |-> [st.node EXCEPT !.items[i + 1] = r.node],
                        pos |-> r.pos, raised |-> r.raised]
         IN FitItems(Put(fit_(st.node.items[i + 1], st.pos,
                              n_total, vectorizers, ignore_patterns)),
                     i + 1, n_total, vectorizers, ignore_patterns)

\* _fit walking the items before the properties.
fit__ItemsFirst(node, pos, n_total, vectorizers, ignore_patterns) ==
    LET Items(s0) == FitItems(s0, 0, n_total, vectorizers, ignore_patterns)
        Properties(s1) == FitProperties(s1, SortedNames(DOMAIN s1.node.properties),
                                        n_total, vectorizers, ignore_patterns)
        Counted(s2) ==
            IF s2.raised THEN s2
            ELSE [s2 EXCEPT !.node.n_features = Len(feature_names_(s2.node))]
    IN Counted(Properties(Items(
           fit_self(node, pos, n_total, vectorizers, ignore_patterns))))

fit_(node, pos, n_total, vectorizers, ignore_patterns) ==
    LET Properties(s0) == FitProperties(s0, SortedNames(DOMAIN s0.node.properties),
                                        n_total, vectorizers, ignore_patterns)
        Items(s1) == FitItems(s1, 0, n_total, vectorizers, ignore_patterns)
        Counted(s2) ==
            IF s2.raised THEN s2
            ELSE [s2 EXCEPT !.node.n_features = Len(feature_names_(s2.node))]
    IN Counted(Items(Properties(
           fit_self(node, pos, n_total, vectorizers, ignore_patterns))))

\* JsonVectorizer.fit: the node and whether the call raised.
fit(node, docs, vectorizers, ignore_patterns) ==
    LET Fitted(n) == fit_(n, 0, SumCounts(n.counts), vectorizers, ignore_patterns)
    IN Fitted(ExtendAll(node, docs))

(***************************************************************************)
(* The sparse matrix primitive (lil): rows[i] is the list of the columns   *)
(* set in row i, data[i] the parallel list of values.                      *)
(***************************************************************************)
RECURSIVE BisectLoop(_, _, _, _)
BisectLoop(a, x, lo, hi) ==
    IF lo < hi
    THEN LET mid == lo + (hi - lo) \div 2
         IN IF a[mid + 1] < x THEN BisectLoop(a, x, mid + 1, hi)
            ELSE BisectLoop(a, x, lo, mid)
    ELSE lo

\* bisect_left
bisect_left(a, x) ==
    LET hi == Len(a)
    IN IF hi > 0 /\ x > a[hi] THEN hi ELSE BisectLoop(a, x, 0, hi)

\* list.insert(pos, x)
ListInsert(l, pos, x) == SubSeq(l, 1, pos) \o <<x>> \o SubSeq(l, pos + 1, Len(l))

\* lil_insert without the test for a column that is already there.
lil_insert_NoTest(X, i, j) ==
    LET pos == bisect_left(X.rows[i + 1], j)
    IN [X EXCEPT !.rows[i + 1] = ListInsert(@, pos, j),
                 !.data[i + 1] = ListInsert(@, pos, TRUE)]

\* lil_insert
lil_insert(X, i, j) ==
    LET row == X.rows[i + 1]
        pos == bisect_left(row, j)
    IN IF pos = Len(row)
       THEN [X EXCEPT !.rows[i + 1] = Append(@, j), !.data[i + 1] = Append(@, TRUE)]
       ELSE IF row[pos + 1] # j
       THEN [X EXCEPT !.rows[i + 1] = ListInsert(@, pos, j),
                      !.data[i + 1] = ListInsert(@, pos, TRUE)]
       ELSE [X EXCEPT !.data[i + 1][pos + 1] = TRUE]

\* lil_set_col
RECURSIVE lil_set_col(_, _, _)
lil_set_col(X, rs, col) ==
    IF rs = <<>> THEN X ELSE lil_set_col(lil_insert(X, Head(rs), col), Tail(rs), col)

\* lil_set
RECURSIVE lil_set(_, _, _)
lil_set(X, rs, cols) ==
    IF rs = <<>> THEN X
    ELSE lil_set(lil_insert(X, Head(rs), Head(cols)), Tail(rs), Tail(cols))

(***************************************************************************)
(* Transforming.  Local indices (positions in docs) and global rows        *)
(* (entries of indices) are 0-based.                                       *)
(***************************************************************************)
\* The ascending list of the i in 0..n-1 with P(i): the list a loop over
\* range(n) builds by appending those i.
RECURSIVE FilterFrom(_, _)
FilterFrom(i, flags) ==
    IF i >= Len(flags) THEN <<>>
    ELSE (IF flags[i + 1] THEN <<i>> ELSE <<>>) \o FilterFrom(i + 1, flags)

Filter(n, P(_)) == FilterFrom(0, [k \in 1..n |-> P(k - 1)])

\* indices[indices_] (numpy fancy indexing)
Take(indices, indices_) == [k \in DOMAIN indices_ |-> indices[indices_[k] + 1]]

\* indices_by_type of _transform, as a dict
IndicesByType(node, docs) ==
    LET present == {t \in node.type : \E i \in DOMAIN docs : typeof(docs[i]) = t}
    IN [t \in present |-> Filter(Len(docs), LAMBDA i : typeof(docs[i + 1]) = t)]

\* indices_by_property of _transform, as a dict
IndicesByProperty(node, docs, indices_by_type) ==
    IF OBJECT \notin DOMAIN indices_by_type THEN <<>>
    ELSE LET Has(name, i) == typeof(docs[i + 1]) = OBJECT /\ name \in DOMAIN docs[i + 1].v
             present == {name \in DOMAIN node.properties :
                            \E k \in DOMAIN indices_by_type[OBJECT] :
                                Has(name, indices_by_type[OBJECT][k])}
         IN [name \in present |-> Filter(Len(docs), LAMBDA i : Has(name, i))]

\* The loops that build indices_by_item in _transform: is the list of the
\* array documents still to visit, i the current one, j its next position.
RECURSIVE IndicesByItemLoop(_, _, _, _, _)
IndicesByItemLoop(node, docs, is, j, indices_by_item) ==
    IF is = <<>> THEN indices_by_item
    ELSE LET i == Head(is)
         IN IF j >= Len(docs[i + 1].v)
            THEN IndicesByItemLoop(node, docs, Tail(is), 0, indices_by_item)
            ELSE IF j * (IF node.tuple_items THEN 1 ELSE 0) < Len(node.items)
            THEN IndicesByItemLoop(node, docs, is, j + 1,
                    IF j < Len(indices_by_item)
                    THEN [indices_by_item EXCEPT ![j + 1] = Append(@, i)]
                    ELSE Append(indices_by_item, <<i>>))
            ELSE IndicesByItemLoop(node, docs, is, j + 1, indices_by_item)

\* The body of the loop of _transform_self for one type: st is [X, pos].
TransformType(node, json_type, docs, st, indices, indices_by_type, indices_by_property) ==
    LET s1 == IF Cardinality(node.type) > 1
              THEN [X |-> IF json_type \in DOMAIN indices_by_type
                          THEN lil_set_col(st.X,
                                   Take(indices, indices_by_type[json_type]), st.pos)
                          ELSE st.X,
                    pos |-> st.pos + 1]
              ELSE st
        opt == OptionalNames(node)
        SetProperties[k \in 0..Len(opt)] ==
            IF k = 0 THEN s1.X
            ELSE IF opt[k] \in DOMAIN indices_by_property
            THEN lil_set_col(SetProperties[k - 1],
                     Take(indices, indices_by_property[opt[k]]), s1.pos + k - 1)
            ELSE SetProperties[k - 1]
        s2 == IF json_type = OBJECT
              THEN [X |-> SetProperties[Len(opt)], pos |-> s1.pos + Len(opt)]
              ELSE s1
        vectorizer == node.vectorizers[json_type]
        indices_ == indices_by_type[json_type]
        hits == VectorizerTransform(vectorizer, [k \in DOMAIN indices_ |-> docs[indices_[k] + 1]], 0)
        rs == [k \in DOMAIN hits |-> hits[k].r]
        cs == [k \in DOMAIN hits |-> hits[k].c]
    IN IF json_type \in DOMAIN node.vectorizers
       THEN [X |-> IF json_type \in DOMAIN indices_by_type
                   THEN lil_set(s2.X, Take(Take(indices, indices_), rs),
                                [k \in DOMAIN cs |-> s2.pos + cs[k]])
                   ELSE s2.X,
             pos |-> s2.pos + Len(vectorizer.feature_names_)]
       ELSE s2

RECURSIVE TransformSelfLoop(_, _, _, _, _, _, _)
TransformSelfLoop(node, types, docs, st, indices, indices_by_type, indices_by_property) ==
    IF types = <<>> THEN st
    ELSE TransformSelfLoop(node, Tail(types), docs,
            TransformType(node, Head(types), docs, st,
                          indices, indices_by_type, indices_by_property),
            indices, indices_by_type, indices_by_property)

\* JsonVectorizer._transform_self
transform_self(node, docs, X, indices, indices_by_type, indices_by_property) ==
    TransformSelfLoop(node, SortedTypes(node.type), docs, [X |-> X, pos |-> node.pos],
                      indices, indices_by_type, indices_by_property).X

\* JsonVectorizer._transform: a call gives [X, raised].  leak says whether the
\* build lets the loop variable of a list comprehension overwrite the local i
\* (Cython language level 2) or keeps it in a scope of its own (level 3).
RECURSIVE transform_(_, _, _, _, _)
RECURSIVE TransformProperties(_, _, _, _, _, _, _)
RECURSIVE TransformItems(_, _, _, _, _, _, _, _)

\* The loop over sorted(indices_by_property.items()).
TransformProperties(node, names, docs, st, indices, indices_by_property, leak) ==
    IF names = <<>> \/ st.raised THEN st
    ELSE LET name == Head(names)
             indices_ == indices_by_property[name]
             docs_ == [k \in DOMAIN indices_ |-> docs[indices_[k] + 1].v[name]]
         IN TransformProperties(node, Tail(names), docs,
                transform_(node.properties[name], docs_, st.X, Take(indices, indices_), leak),
                indices, indices_by_property, leak)

\* The loop over enumerate(indices_by_item) descending, in list mode, with the
\* elements at position 0 only.
TransformItems_FirstOnly(node, j, docs, st, indices, indices_by_item, last, leak) ==
    IF j >= Len(indices_by_item) \/ st.raised \/ (~node.tuple_items /\ j > 0) THEN st
    ELSE LET indices_ == indices_by_item[j + 1]
             docs_ == [k \in DOMAIN indices_ |-> docs[indices_[k] + 1].v[j + 1]]
             i == IF leak THEN indices_[Len(indices_)] ELSE last
             index == IF node.tuple_items THEN i ELSE 0
         IN IF index >= Len(node.items)
            THEN [st EXCEPT !.raised = TRUE]
            ELSE TransformItems(node, j + 1, docs,
                    transform_(node.items[index + 1], docs_, st.X,
                               Take(indices, indices_), leak),
                    indices, indices_by_item, last, leak)

\* The loop over enumerate(indices_by_item); last is the value the loop over
\* indices_by_type[ARRAY] left in i.
TransformItems(node, j, docs, st, indices, indices_by_item, last, leak) ==
    IF j >= Len(indices_by_item) \/ st.raised THEN st
    ELSE LET indices_ == indices_by_item[j + 1]
             docs_ == [k \in DOMAIN indices_ |-> docs[indices_[k] + 1].v[j + 1]]
             i == IF leak THEN indices_[Len(indices_)] ELSE last
             index == IF node.tuple_items THEN i ELSE 0
         IN IF index >= Len(node.items)
            THEN [st EXCEPT !.raised = TRUE]       \* IndexError
            ELSE TransformItems(node, j + 1, docs,
                    transform_(node.items[index + 1], docs_, st.X,
                               Take(indices, indices_), leak),
                    indices, indices_by_item, last, leak)

transform_(node, docs, X, indices, leak) ==
    LET indices_by_type == IndicesByType(node, docs)
        indices_by_property == IndicesByProperty(node, docs, indices_by_type)
        arrays == IF ARRAY \in DOMAIN indices_by_type THEN indices_by_type[ARRAY] ELSE <<>>
        indices_by_item == IndicesByItemLoop(node, docs, arrays, 0, <<>>)
        s0 == [X |-> transform_self(node, docs, X, indices,
                                    indices_by_type, indices_by_property),
               raised |-> FALSE]
        s1 == TransformProperties(node, SortedNames(DOMAIN indices_by_property), docs,
                                  s0, indices, indices_by_property, leak)
    IN IF arrays = <<>> THEN s1
       ELSE TransformItems(node, 0, docs, s1, indices, indices_by_item,
                           arrays[Len(arrays)], leak)

\* JsonVectorizer.transform: the matrix X of shape (len(docs), n_features),
\* as far as it was written, and whether the call raised.
transform(node, docs, leak) ==
    LET empty == [i \in 1..Len(docs) |-> <<>>]
        r == transform_(node, docs, [rows |-> empty, data |-> empty],
                        [i \in 1..Len(docs) |-> i - 1], leak)
    IN [shape |-> <<Len(docs), node.n_features>>,
        rows |-> r.X.rows, data |-> r.X.data, raised |-> r.raised]

(***************************************************************************)
(* Persistence: to_dict, from_dict and __reduce__.  A schema dict is a     *)
(* function from its keys ("tuple_items", "type", ...) to their values.    *)
(***************************************************************************)
\* {type2str(k): v for k, v in d.items()}
KeysToStr(d) ==
    [s \in {type2str(k) : k \in DOMAIN d} |->
        d[CHOOSE k \in DOMAIN d : type2str(k) = s]]

\* {str2type(k): v for k, v in d.items()}
KeysToType(d) ==
    [t \in {str2type(k) : k \in DOMAIN d} |->
        d[CHOOSE k \in DOMAIN d : str2type(k) = t]]

\* d with d[key] = value when cond holds
SetIf(cond, d, key, value) == IF cond THEN (key :> value) @@ d ELSE d

RECURSIVE to_dict(_)

\* Schema.to_dict
Schema_to_dict(node) ==
    LET types == SortedTypes(node.type)
        d0 == "tuple_items" :> node.tuple_items
        d1 == SetIf(node.type # {}, d0, "type",
                    [i \in DOMAIN types |-> type2str(types[i])])
        d2 == SetIf(~node.required_none, d1, "required", node.required)
        d3 == SetIf(DOMAIN node.properties # {}, d2, "properties",
                    [name \in DOMAIN node.properties |-> to_dict(node.properties[name])])
    IN SetIf(node.items # <<>>, d3, "items",
             [i \in DOMAIN node.items |-> to_dict(node.items[i])])

\* JsonVectorizer.to_dict
to_dict(node) ==
    LET d0 == Schema_to_dict(node)
        d1 == SetIf(DOMAIN node.counts # {}, d0, "counts", KeysToStr(node.counts))
        d2 == SetIf(DOMAIN node.values # {}, d1, "values", KeysToStr(node.values))
        d3 == SetIf(TRUE, d2, "pos", node.pos)
        d4 == SetIf(DOMAIN node.vectorizers # {}, d3, "vectorizers",
                    KeysToStr(node.vectorizers))
        d5 == SetIf(node.feature_names # <<>>, d4, "feature_names", node.feature_names)
    IN SetIf(TRUE, d5, "n_features", node.n_features)

RECURSIVE New(_, _, _)
RECURSIVE FromProperties(_, _, _)
RECURSIVE FromItems(_, _, _)

\* The loop of from_dict over schema['properties'].items(): add_property(key, value).
FromProperties(node, names, properties) ==
    IF names = <<>> THEN node
    ELSE LET name == Head(names)
             child == New(properties[name], Append(node.path, StrSeg(name)),
                          node.tuple_items)
         IN FromProperties([node EXCEPT !.properties = DictSet(@, name, child)],
                           Tail(names), properties)

\* The loop of from_dict over schema['items']: add_item(item).
FromItems(node, i, items) ==
    IF i >= Len(items) THEN node
    ELSE LET seg == IF node.tuple_items THEN IntSeg(Len(node.items)) ELSE StrSeg("any")
             child == New(items[i + 1], Append(node.path, seg), node.tuple_items)
         IN FromItems([node EXCEPT !.items = Append(@, child)], i + 1, items)

\* Schema.from_dict without the required set.
Schema_from_dict_NoRequired(node, schema) ==
    LET n0 == [node EXCEPT !.tuple_items = schema["tuple_items"]]
        n1 == IF "type" \in DOMAIN schema
              THEN [n0 EXCEPT !.type =
                       @ \cup {str2type(schema["type"][i]) : i \in DOMAIN schema["type"]}]
              ELSE n0
        n3 == IF "properties" \in DOMAIN schema
              THEN FromProperties(n1, SortedNames(DOMAIN schema["properties"]),
                                  schema["properties"])
              ELSE n1
    IN IF "items" \in DOMAIN schema THEN FromItems(n3, 0, schema["items"]) ELSE n3

\* Schema.from_dict
Schema_from_dict(node, schema) ==
    LET n0 == [node EXCEPT !.tuple_items = schema["tuple_items"]]
        n1 == IF "type" \in DOMAIN schema
              THEN [n0 EXCEPT !.type =
                       @ \cup {str2type(schema["type"][i]) : i \in DOMAIN schema["type"]}]
              ELSE n0
        n2 == IF "required" \in DOMAIN schema
              THEN [n1 EXCEPT !.required_none = FALSE, !.required = schema["required"]]
              ELSE n1
        n3 == IF "properties" \in DOMAIN schema
              THEN FromProperties(n2, SortedNames(DOMAIN schema["properties"]),
                                  schema["properties"])
              ELSE n2
    IN IF "items" \in DOMAIN schema THEN FromItems(n3, 0, schema["items"]) ELSE n3

\* JsonVectorizer.from_dict
from_dict(node, schema) ==
    LET n0 == Schema_from_dict(node, schema)
        n1 == IF "counts" \in DOMAIN schema
              THEN [n0 EXCEPT !.counts = KeysToType(schema["counts"])] ELSE n0
        n2 == IF "values" \in DOMAIN schema
              THEN [n1 EXCEPT !.values = KeysToType(schema["values"])] ELSE n1
        n3 == IF "pos" \in DOMAIN schema THEN [n2 EXCEPT !.pos = schema["pos"]] ELSE n2
        n4 == IF "vectorizers" \in DOMAIN schema
              THEN [n3 EXCEPT !.vectorizers = KeysToType(schema["vectorizers"])] ELSE n3
        n5 == IF "feature_names" \in DOMAIN schema
              THEN [n4 EXCEPT !.feature_names = schema["feature_names"]] ELSE n4
    IN IF "n_features" \in DOMAIN schema
       THEN [n5 EXCEPT !.n_features = schema["n_features"]] ELSE n5

\* Schema.__init__ after __cinit__: schema['tuple_items'] defaults to the
\* argument, then from_dict(schema).
InitSchema(schema, tuple_items) ==
    IF "tuple_items" \in DOMAIN schema THEN schema
    ELSE ("tuple_items" :> tuple_items) @@ schema

New(schema, path, tuple_items) ==
    from_dict(NewNode(path, tuple_items), InitSchema(schema, tuple_items))

\* What unpickling builds from __reduce__.
Reduce(node) == New(to_dict(node), node.path, node.tuple_items)

(***************************************************************************)
(* The documents of the model.                                            *)
(***************************************************************************)
PyInt(i) == [k |-> "int", v |-> i]
PyStr(s) == [k |-> "str", v |-> s]
PyNone == [k |-> "none"]
PyDict(f) == [k |-> "dict", v |-> f]
PyList(s) == [k |-> "list", v |-> s]

Docs ==
    { PyDict([p |-> PyInt(1), q |-> PyStr("x")]), PyDict([p |-> PyStr("x")]),
      PyList(<<PyInt(1), PyStr("x")>>), PyList(<<PyStr("x")>>), PyList(<<>>) }

(***************************************************************************)
(* State.  root is the vectorizer, leak the build's comprehension scoping, *)
(* call the last call on root with its arguments and what it returned.     *)
(* seen (the documents extended so far), pruned (whether prune has been    *)
(* called), nfit (the number of calls of fit) and fitted (whether fit was   *)
(* the last call that changed the tree) record the history.                *)
(***************************************************************************)
VARIABLES root, leak, call, seen, pruned, nfit, fitted, default_schema

vars == <<root, leak, call, seen, pruned, nfit, fitted, default_schema>>

\* The inputs of the calls: prune(patterns, min_f), fit(docs, vectorizers,
\* ignore_patterns) and transform(docs).
PruneArgs ==
    { [patterns |-> <<>>, min_f |-> [int |-> 0]],
      [patterns |-> <<>>, min_f |-> [int |-> 2]],
      [patterns |-> <<"q">>, min_f |-> [int |-> 1]],
      [patterns |-> <<>>, min_f |-> [num |-> 1, den |-> 2]],
      [patterns |-> <<Malformed>>, min_f |-> [int |-> 2]] }
FitArgs ==
    { [vectorizers |-> <<>>, ignore_patterns |-> <<>>],
      [vectorizers |-> <<[vectorizer |-> "Vocabulary"]>>, ignore_patterns |-> <<"q">>],
      [vectorizers |->
          <<[type |-> [str |-> "number"], pattern |-> "p", vectorizer |-> "Frequent"],
            [type |-> [list |-> <<"number", "string">>], vectorizer |-> "Vocabulary"]>>,
       ignore_patterns |-> <<>>],
      [vectorizers |-> <<>>, ignore_patterns |-> <<Malformed>>],
      [vectorizers |->
          <<[type |-> [str |-> "number"], pattern |-> Malformed, vectorizer |-> "Vocabulary"]>>,
       ignore_patterns |-> <<>>] }
FitDocs == {<<>>, <<PyList(<<PyStr("x")>>)>>}

RECURSIVE Batches(_)
Batches(n) ==
    IF n = 0 THEN {<<>>}
    ELSE LET shorter == Batches(n - 1)
         IN shorter \cup {Append(b, doc) : b \in shorter, doc \in Docs}

\* transform returns a matrix and leaves the vectorizer as it was: the calls
\* that can follow it are those of the state it was made in, with the same
\* results, so the model takes them from that state.
Returned == call.op # "transform"

\* default_schema is the dict that is the default value of the parameter
\* schema of Schema.__init__: one object, made when the class is defined
\* (empty) and handed to every call that passes no schema, which writes
\* schema['tuple_items'] into it.
\*
\* The state after the first JsonVectorizer(tuple_items=b).  The
\* comprehension scoping only matters to a tuple-mode vectorizer.
Init ==
    /\ \E b \in BOOLEAN :
        /\ root = New(<<>>, <<StrSeg("root")>>, b)
        /\ default_schema = InitSchema(<<>>, b)
        /\ call = [op |-> "new", tuple_items |-> b]
        /\ leak \in IF b THEN BOOLEAN ELSE {FALSE}
    /\ seen = <<>>
    /\ pruned = FALSE
    /\ nfit = 0
    /\ fitted = FALSE

Extend ==
    /\ Returned
    /\ Len(seen) < MaxExtend
    /\ \E doc \in Docs :
        /\ root' = extend(root, doc)
        /\ call' = [op |-> "extend", doc |-> doc]
        /\ seen' = Append(seen, doc)
    /\ fitted' = FALSE
    /\ UNCHANGED <<leak, pruned, nfit, default_schema>>

Prune ==
    /\ Returned
    /\ \E args \in PruneArgs :
        \E r \in {prune(root, args.patterns, args.min_f)} :
           /\ root' = r.node
           /\ call' = [op |-> "prune", patterns |-> args.patterns, min_f |-> args.min_f,
                       raised |-> r.raised,
                       paths |-> IF r.raised THEN <<>> ELSE r.paths]
    /\ pruned' = TRUE
    /\ fitted' = FALSE
    /\ UNCHANGED <<leak, seen, nfit, default_schema>>

Fit ==
    /\ Returned
    /\ nfit < MaxFit
    /\ \E docs \in FitDocs, args \in FitArgs :
        /\ Len(seen) + Len(docs) <= MaxExtend
        /\ \E r \in {fit(root, docs, args.vectorizers, args.ignore_patterns)} :
              /\ root' = r.node
              /\ call' = [op |-> "fit", docs |-> docs, vectorizers |-> args.vectorizers,
                          ignore_patterns |-> args.ignore_patterns, raised |-> r.raised]
              /\ fitted' = ~r.raised
        /\ seen' = seen \o docs
    /\ nfit' = nfit + 1
    /\ UNCHANGED <<leak, pruned, default_schema>>

Transform ==
    /\ Returned
    /\ \E docs \in Batches(MaxBatch) :
        call' = [op |-> "transform", docs |-> docs, X |-> transform(root, docs, leak)]
    /\ UNCHANGED <<root, leak, seen, pruned, nfit, fitted, default_schema>>

\* Another JsonVectorizer(tuple_items=b), with which the program goes on.
Construct ==
    /\ Returned
    /\ \E b \in BOOLEAN :
        /\ root' = New(default_schema, <<StrSeg("root")>>, b)
        /\ default_schema' = InitSchema(default_schema, b)
        /\ call' = [op |-> "new", tuple_items |-> b]
    /\ seen' = <<>>
    /\ pruned' = FALSE
    /\ nfit' = 0
    /\ fitted' = FALSE
    /\ UNCHANGED leak

Next == Construct \/ Extend \/ Prune \/ Fit \/ Transform

Spec == Init /\ [][Next]_vars

(***************************************************************************)
(* The sparse matrix primitive on its own: a matrix of LilRows rows that   *)
(* starts empty and is written by lil_insert, lil_set_col and lil_set with *)
(* any rows and columns.  call holds the matrix X after the last call, the *)
(* set of the (row, column) pairs inserted so far and whether the last     *)
(* call inserted a pair that was already there.                            *)
(***************************************************************************)
LilRowSet == 0..(LilRows - 1)
LilColSet == 0..(LilCols - 1)

\* The lists of at most MaxPairs elements of S.
ListsOf(S) == UNION {[1..n -> S] : n \in 0..MaxPairs}

Pairs(rs, cols) == {<<rs[k], cols[k]>> : k \in DOMAIN rs}

LilCall(op, X, pairs) ==
    [op |-> op, X |-> X, inserted |-> call.inserted \cup pairs,
     again |-> pairs \cap call.inserted # {}]

LilInit ==
    /\ root = NewNode(<<StrSeg("root")>>, FALSE)
    /\ leak = FALSE
    /\ call = [op |-> "lil", X |-> [rows |-> [i \in 1..LilRows |-> <<>>],
                                    data |-> [i \in 1..LilRows |-> <<>>]],
               inserted |-> {}, again |-> FALSE]
    /\ seen = <<>>
    /\ pruned = FALSE
    /\ nfit = 0
    /\ fitted = FALSE
    /\ default_schema = <<>>

LilInsert ==
    /\ \E i \in LilRowSet, j \in LilColSet :
          call' = LilCall("lil_insert", lil_insert(call.X, i, j), {<<i, j>>})
    /\ UNCHANGED <<root, leak, seen, pruned, nfit, fitted, default_schema>>

LilSetCol ==
    /\ \E rs \in ListsOf(LilRowSet), col \in LilColSet :
          call' = LilCall("lil_set_col", lil_set_col(call.X, rs, col),
                          {<<rs[k], col>> : k \in DOMAIN rs})
    /\ UNCHANGED <<root, leak, seen, pruned, nfit, fitted, default_schema>>

LilSet ==
    /\ \E rs \in ListsOf(LilRowSet) :
          \E cols \in [DOMAIN rs -> LilColSet] :
              call' = LilCall("lil_set", lil_set(call.X, rs, cols), Pairs(rs, cols))
    /\ UNCHANGED <<root, leak, seen, pruned, nfit, fitted, default_schema>>

LilNext == LilInsert \/ LilSetCol \/ LilSet

SpecLil == LilInit /\ [][LilNext]_vars
(***************************************************************************)
(* What the documents say, independently of the walks above: the values of *)
(* a document found at a node's place.  A property segment selects the     *)
(* value of that key of an object, 'any' every element of an array, and an *)
(* index that element of an array.                                         *)
(***************************************************************************)
RECURSIVE At(_, _)
RECURSIVE AtEach(_, _)
AtEach(elems, segs) ==
    IF elems = <<>> THEN <<>> ELSE At(Head(elems), segs) \o AtEach(Tail(elems), segs)

At(doc, segs) ==
    IF segs = <<>> THEN <<doc>>
    ELSE LET seg == Head(segs)
         IN CASE ~IsStr(seg) ->
                   IF doc.k = "list" /\ seg.int < Len(doc.v)
                   THEN At(doc.v[seg.int + 1], Tail(segs)) ELSE <<>>
              [] IsStr(seg) /\ seg.str = "any" ->
                   IF doc.k = "list" THEN AtEach(doc.v, Tail(segs)) ELSE <<>>
              [] OTHER ->
                   IF doc.k = "dict" /\ seg.str \in DOMAIN doc.v
                   THEN At(doc.v[seg.str], Tail(segs)) ELSE <<>>

\* The values of the documents docs found at the node, in order.
Found(node, docs) == AtEach(docs, Tail(node.path))

\* The nodes of a tree.
RECURSIVE Nodes(_)
Nodes(node) ==
    {node}
    \cup UNION {Nodes(node.properties[name]) : name \in DOMAIN node.properties}
    \cup UNION {Nodes(node.items[i]) : i \in DOMAIN node.items}

OfKind(values, kind) == SelectSeq(values, LAMBDA d : d.k = kind)
OfType(values, t) == SelectSeq(values, LAMBDA d : typeof(d) = t)

RECURSIVE KeysOfAll(_)
KeysOfAll(objects) ==
    IF Len(objects) = 1 THEN DOMAIN objects[1].v
    ELSE DOMAIN Head(objects).v \cap KeysOfAll(Tail(objects))

\* C1: as long as only extend (alone or at the head of fit) has changed the
\* tree, a node that no object has reached has no required set, and the
\* required set of any other node is the intersection of the key sets of all
\* the objects that reached it.
C1_RequiredIsIntersection ==
    ~pruned =>
        \A n \in Nodes(root) :
            LET objects == OfKind(Found(n, seen), "dict")
            IN IF objects = <<>> THEN n.required_none
               ELSE ~n.required_none /\ n.required = KeysOfAll(objects)

\* Two objects with different key sets have reached the root, and its
\* required set is smaller than the key set of the first.
C1_Witness ==
    /\ ~pruned
    /\ Len(OfKind(seen, "dict")) >= 2
    /\ root.required # DOMAIN OfKind(seen, "dict")[1].v
    /\ root.required # {}

RECURSIVE MaxLen(_)
MaxLen(arrays) ==
    IF arrays = <<>> THEN 0
    ELSE LET m == MaxLen(Tail(arrays))
         IN IF Len(Head(arrays).v) > m THEN Len(Head(arrays).v) ELSE m

\* The counts and the sample values that extending a node with the values
\* vs, one after the other, leaves in it.
CountsOf(vs) ==
    [t \in {typeof(vs[i]) : i \in DOMAIN vs} |-> Len(OfType(vs, t))]
ValuesOf(vs) ==
    [t \in {typeof(vs[i]) : i \in DOMAIN vs} \ {OBJECT, ARRAY, JNULL} |-> OfType(vs, t)]

\* C10: as long as only extend has changed the tree, a tuple-mode node has as
\* many items as the longest array that reached it and a shared-mode node has
\* exactly one item once an array has reached it; and item i has been
\* extended with exactly the elements at position i (tuple mode), or with
\* every element of every array (shared mode): it has their types and counts
\* and, until fit discards them, their values in order.
C10_ItemsSeeTheirElements ==
    ~pruned =>
        \A n \in Nodes(root) :
            LET arrays == OfKind(Found(n, seen), "list")
            IN /\ Len(n.items) = IF n.tuple_items THEN MaxLen(arrays)
                                 ELSE IF arrays = <<>> THEN 0 ELSE 1
               /\ \A i \in DOMAIN n.items :
                    LET elems == IF n.tuple_items
                                 THEN AtEach(arrays, <<IntSeg(i - 1)>>)
                                 ELSE AtEach(arrays, <<StrSeg("any")>>)
                    IN /\ n.items[i].type = {typeof(elems[k]) : k \in DOMAIN elems}
                       /\ n.items[i].counts = CountsOf(elems)
                       /\ nfit = 0 => n.items[i].values = ValuesOf(elems)

\* Both arrays [1, "x"] and ["x"] have been extended, nothing else: in tuple
\* mode there are two items, in shared mode one item that saw three elements.
C10_Witness ==
    /\ ~pruned /\ nfit = 0
    /\ seen = <<PyList(<<PyInt(1), PyStr("x")>>), PyList(<<PyStr("x")>>)>>
    /\ IF root.tuple_items
       THEN Len(root.items) = 2 /\ root.items[2].counts = (JSTRING :> 1)
       ELSE Len(root.items) = 1 /\ SumCounts(root.items[1].counts) = 3
\* The nodes of a tree in pre-order: the node, then its properties by name,
\* then its items by index.
RECURSIVE PreOrder(_)
RECURSIVE PreOrderOfProperties(_, _)
RECURSIVE PreOrderOfItems(_, _)
PreOrderOfProperties(node, names) ==
    IF names = <<>> THEN <<>>
    ELSE PreOrder(node.properties[Head(names)]) \o PreOrderOfProperties(node, Tail(names))

PreOrderOfItems(node, i) ==
    IF i > Len(node.items) THEN <<>>
    ELSE PreOrder(node.items[i]) \o PreOrderOfItems(node, i + 1)

PreOrder(node) ==
    <<node>> \o PreOrderOfProperties(node, SortedNames(DOMAIN node.properties))
             \o PreOrderOfItems(node, 1)

RECURSIVE SumNames(_)
SumNames(nodes) ==
    IF nodes = <<>> THEN 0 ELSE Len(Head(nodes).feature_names) + SumNames(Tail(nodes))

\* C2: right after fit returns, the nodes taken in pre-order hold consecutive column
\* ranges starting at 0 (each node begins where the one before it ends), so
\* the ranges of different nodes are disjoint; name k of a node is entry
\* pos + k of the root's flat list of feature names; and n_features of every
\* node is the number of names of the node and its descendants.
C2_ColumnsInPreOrder ==
    (call.op = "fit" /\ ~call.raised) =>
        LET nodes == PreOrder(root)
            flat == feature_names_(root)
            End(i) == nodes[i].pos + Len(nodes[i].feature_names)
        IN /\ nodes[1].pos = 0
           /\ \A i \in 2..Len(nodes) : nodes[i].pos = End(i - 1)
           /\ \A i, j \in DOMAIN nodes :
                i # j => \A c \in nodes[i].pos..(End(i) - 1) :
                            c \notin nodes[j].pos..(End(j) - 1)
           /\ \A i \in DOMAIN nodes :
                /\ End(i) <= Len(flat)
                /\ \A k \in DOMAIN nodes[i].feature_names :
                     flat[nodes[i].pos + k] = nodes[i].feature_names[k]
                /\ nodes[i].n_features = SumNames(PreOrder(nodes[i]))

\* fit has run on a root that has names of its own, a property with names
\* and an item with names.
C2_Witness ==
    /\ call.op = "fit" /\ ~call.raised
    /\ root.feature_names # <<>>
    /\ \E name \in DOMAIN root.properties : root.properties[name].feature_names # <<>>
    /\ \E i \in DOMAIN root.items : root.items[i].feature_names # <<>>
\* The fields of a tree that the round trip is to keep, at every level.
RECURSIVE Structure(_)
Structure(node) ==
    [type |-> node.type, counts |-> node.counts,
     required_none |-> node.required_none, required |-> node.required,
     path |-> node.path, tuple_items |-> node.tuple_items,
     properties |-> [name \in DOMAIN node.properties |-> Structure(node.properties[name])],
     items |-> [i \in DOMAIN node.items |-> Structure(node.items[i])]]

\* C7: the tree rebuilt from to_dict (as unpickling does) has, at every
\* level, the types, counts, required set (or None), property keys, number of
\* items, path and tuple_items of the tree it was made from.
C7_RoundTrip == Structure(Reduce(root)) = Structure(root)

\* A tree built by extend alone, in either mode, with a required set, a
\* property, an item and counts, that the round trip reproduces.
C7_Witness ==
    /\ ~pruned /\ nfit = 0
    /\ ~root.required_none /\ root.required # {}
    /\ DOMAIN root.properties # {} /\ root.items # <<>>
    /\ \E i \in DOMAIN root.items : DOMAIN root.items[i].counts # {}
    /\ Structure(Reduce(root)) = Structure(root)

\* What is left of node n after the self-step with threshold min_f, by the
\* claim: the types below the threshold go, with their counts and values.
SelfStepAsClaimed(n, min_f) ==
    LET dropped == {t \in n.type : n.counts[t] < min_f}
        kept == n.type \ dropped
        gone == SortedTypes(dropped)
        r == prune_self(n, min_f)
    IN /\ ~r.raised
       /\ r.node.type = kept
       /\ r.node.counts = [t \in DOMAIN n.counts \ dropped |-> n.counts[t]]
       /\ r.node.values = [t \in DOMAIN n.values \ dropped |-> n.values[t]]
       /\ r.node.properties = IF OBJECT \in dropped THEN <<>> ELSE n.properties
       /\ r.node.required = IF OBJECT \in dropped THEN {} ELSE n.required
       /\ r.node.items = IF ARRAY \in dropped THEN <<>> ELSE n.items
       /\ r.paths = IF kept # {}
                    THEN [i \in DOMAIN gone |-> TypeEntry(Join(n.path), gone[i])]
                    ELSE <<NodeEntry(Join(n.path))>>

\* The thresholds tried at every node.
MinFrequencies == 0..(MaxExtend + 1)

Hot(X, r, c) == \E k \in DOMAIN X.rows[r + 1] : X.rows[r + 1][k] = c /\ X.data[r + 1][k]

\* The values of document r of the transformed batch at the place of node n.
ValuesAt(n, r) == At(call.docs[r + 1], Tail(n.path))

\* The columns of node n whose feature name is name.
ColumnsNamed(n, name) ==
    {n.pos + k - 1 : k \in {k \in DOMAIN n.feature_names : n.feature_names[k] = name}}

\* A transform of a tree that fit has fixed has returned.
Transformed == call.op = "transform" /\ fitted

\* C3: transform of a fitted tree returns, without raising, a matrix of
\* len(docs) rows and n_features columns all of whose entries are the boolean
\* True at a column below n_features.
C3_TransformShape ==
    Transformed =>
        /\ ~call.X.raised
        /\ call.X.shape = <<Len(call.docs), root.n_features>>
        /\ Len(call.X.rows) = Len(call.docs) /\ Len(call.X.data) = Len(call.docs)
        /\ \A r \in DOMAIN call.X.rows :
             /\ Len(call.X.data[r]) = Len(call.X.rows[r])
             /\ \A k \in DOMAIN call.X.rows[r] :
                  /\ call.X.rows[r][k] \in 0..(root.n_features - 1)
                  /\ call.X.data[r][k] = TRUE

\* C4: after transform of a fitted tree, a node with several types has, for
\* each of them, a type-indicator column, set in exactly the rows whose
\* document has a value of that type at the node; a node with one type has no
\* type-indicator column.
C4_TypeIndicators ==
    Transformed =>
        \A n \in Nodes(root) :
            LET Cols(t) == ColumnsNamed(n, IsName(JoinStr(n.path), t))
            IN IF Cardinality(n.type) > 1
               THEN \A t \in n.type :
                      /\ Cardinality(Cols(t)) = 1
                      /\ \A c \in Cols(t), r \in 0..(Len(call.docs) - 1) :
                            Hot(call.X, r, c) <=>
                                \E k \in DOMAIN ValuesAt(n, r) :
                                    typeof(ValuesAt(n, r)[k]) = t
               ELSE \A t \in JsonType : Cols(t) = {}

\* C5: after transform of a fitted tree, the property-indicator names of a
\* node with the object type are those of its properties that are not
\* required, once each and in sorted order, and the column of each is set in
\* exactly the rows whose document has, at the node, an object with that key.
C5_OptionalProperties ==
    Transformed =>
        \A n \in Nodes(root) :
            OBJECT \in n.type =>
                LET opt == OptionalNames(n)
                    Name(i) == HasName(JoinStr(n.path), opt[i])
                IN /\ SelectSeq(n.feature_names, LAMBDA fn : fn.kind = "has")
                        = [i \in DOMAIN opt |-> Name(i)]
                   /\ \A i \in DOMAIN opt :
                        \A c \in ColumnsNamed(n, Name(i)), r \in 0..(Len(call.docs) - 1) :
                            Hot(call.X, r, c) <=>
                                \E k \in DOMAIN ValuesAt(n, r) :
                                    /\ ValuesAt(n, r)[k].k = "dict"
                                    /\ opt[i] \in DOMAIN ValuesAt(n, r)[k].v

\* C6: transform of a fitted tree does not raise, and a row whose document
\* has, at a node, only values of types that are not among the node's sets no
\* column in the range of the node and its descendants.
C6_MismatchesAreSkipped ==
    Transformed =>
        /\ ~call.X.raised
        /\ \A n \in Nodes(root), r \in 0..(Len(call.docs) - 1) :
             (/\ ValuesAt(n, r) # <<>>
              /\ \A k \in DOMAIN ValuesAt(n, r) : typeof(ValuesAt(n, r)[k]) \notin n.type)
             => \A c \in n.pos..(n.pos + n.n_features - 1) : ~Hot(call.X, r, c)

\* C8: a call prune([], 0) returns the empty list, without raising, and
\* leaves the tree as it was.
C8_PruneNothingIsNoOp ==
    [][(call'.op = "prune" /\ call'.patterns = <<>> /\ call'.min_f = [int |-> 0])
           => (~call'.raised /\ call'.paths = <<>> /\ root' = root)]_vars
\* The matrix of one row that node gives for the document e alone.
Alone(node, e) ==
    transform_(node, <<e>>, [rows |-> << <<>> >>, data |-> << <<>> >>], <<0>>, leak).X

\* The columns of node and its descendants.
ColumnRange(node) == node.pos..(node.pos + node.n_features - 1)

\* C11: after transform of a fitted tree in list mode, a column of the
\* subtree of items[0] of a node is set in row r exactly when some element of
\* an array that row r's document has at the node gives that column when
\* items[0] transforms the element alone.
C11_ListItemsAreOred ==
    (Transformed /\ ~root.tuple_items) =>
        \A n \in Nodes(root) :
            n.items # <<>> =>
                \A r \in 0..(Len(call.docs) - 1), c \in ColumnRange(n.items[1]) :
                    Hot(call.X, r, c) <=>
                        \E k \in DOMAIN ValuesAt(n, r) :
                            /\ ValuesAt(n, r)[k].k = "list"
                            /\ \E e \in DOMAIN ValuesAt(n, r)[k].v :
                                  Hot(Alone(n.items[1], ValuesAt(n, r)[k].v[e]), 0, c)

\* A row of two elements has set two columns of items[0], one from each.
C11_Witness ==
    /\ Transformed /\ ~root.tuple_items /\ root.items # <<>>
    /\ \E r \in DOMAIN call.docs :
          /\ call.docs[r] = PyList(<<PyInt(1), PyStr("x")>>)
          /\ \E c1, c2 \in ColumnRange(root.items[1]) :
                /\ c1 # c2
                /\ Hot(call.X, r - 1, c1) /\ Hot(call.X, r - 1, c2)
                /\ ~Hot(Alone(root.items[1], PyInt(1)), 0, c2)
                /\ ~Hot(Alone(root.items[1], PyStr("x")), 0, c1)
\* C12: in a matrix written from empty by lil_insert, lil_set_col and
\* lil_set, the columns of every row are strictly ascending and are exactly
\* the columns inserted into the row, the values are as many and all True,
\* and inserting a column that a row has leaves the matrix as it is.
C12_RowsAreSortedSets ==
    \A i \in LilRowSet :
        LET row == call.X.rows[i + 1]
            data == call.X.data[i + 1]
        IN /\ \A k \in 1..(Len(row) - 1) : row[k] < row[k + 1]
           /\ {row[k] : k \in DOMAIN row} = {j \in LilColSet : <<i, j>> \in call.inserted}
           /\ Len(data) = Len(row)
           /\ \A k \in DOMAIN data : data[k] = TRUE
           /\ \A k \in DOMAIN row : lil_insert(call.X, i, row[k]) = call.X

\* A call has inserted a pair that was there, into a matrix with a full row.
C12_Witness ==
    /\ call.again
    /\ Len(call.X.rows[1]) = LilCols
    /\ call.X.rows[2] # <<>>
\* The type names an entry of the rule list admits, and whether the entry
\* admits (t, path).
TypeFilter(d) ==
    IF "type" \notin DOMAIN d THEN {type2str(t) : t \in JsonType}
    ELSE IF "str" \in DOMAIN d.type THEN {d.type.str}
    ELSE {d.type.list[i] : i \in DOMAIN d.type.list}

Admits(d, t, path) ==
    /\ type2str(t) \in TypeFilter(d)
    /\ "pattern" \in DOMAIN d => Search(d.pattern, path)

\* The position of the first entry that admits (t, path), or 0.
FirstMatch(vectorizers, t, path) ==
    LET M == {k \in DOMAIN vectorizers : Admits(vectorizers[k], t, path)}
    IN IF M = {} THEN 0 ELSE CHOOSE k \in M : \A m \in M : k <= m

\* The extractor a first fit leaves at node n for type t when it uses entry
\* k of the rule list: none without an entry, at an ignored path, without
\* samples, or when the entry's extractor declines.
Extractor(n, t, k) ==
    LET samples == OfType(Found(n, seen), t)
    IN IF \/ k = 0
          \/ hasmatch(JoinStr(n.path), call.ignore_patterns)
          \/ t \in {OBJECT, ARRAY, JNULL}
          \/ samples = <<>>
       THEN [none |-> TRUE]
       ELSE VectorizerFit(call.vectorizers[k].vectorizer, samples, Len(seen))

\* C13: in a call of fit that returns, get_vectorizer gives for every node's path and
\* every type the extractor of the first entry of the rule list that admits
\* them, none when no entry does; and a first fit of an unpruned tree leaves
\* at each node, for each of its types, what the extractor of that first entry
\* makes of the node's samples, and nothing of any later entry.
C13_FirstMatchWins ==
    (call.op = "fit" /\ ~call.raised) =>
        \A n \in Nodes(root), t \in JsonType :
            LET path == JoinStr(n.path)
                k == FirstMatch(call.vectorizers, t, path)
                chosen == get_vectorizer(call.vectorizers, t, path)
            IN /\ IF k = 0 THEN chosen.none
                  ELSE ~chosen.none /\ chosen.vectorizer = call.vectorizers[k].vectorizer
               /\ (nfit = 1 /\ ~pruned /\ t \in n.type) =>
                     IF Extractor(n, t, k).none THEN t \notin DOMAIN n.vectorizers
                     ELSE /\ t \in DOMAIN n.vectorizers
                          /\ n.vectorizers[t] = Extractor(n, t, k)

\* Two entries admit a node's type and path, the extractor of the first
\* declines its samples, that of the second would not, and the node has none.
C13_Witness ==
    /\ call.op = "fit" /\ ~call.raised /\ nfit = 1 /\ ~pruned
    /\ \E n \in Nodes(root), t \in JsonType :
          /\ t \in n.type
          /\ Len(call.vectorizers) = 2
          /\ \A k \in {1, 2} : Admits(call.vectorizers[k], t, JoinStr(n.path))
          /\ Extractor(n, t, 1).none
          /\ ~Extractor(n, t, 2).none
          /\ t \notin DOMAIN n.vectorizers
\* Whether a list of patterns, or a rule list, holds a malformed pattern.
HasMalformed(patterns) == \E i \in DOMAIN patterns : SearchRaises(patterns[i])
RuleMalformed(d) == "pattern" \in DOMAIN d /\ SearchRaises(d.pattern)

\* The last call was a prune or a fit that was given a malformed pattern.
GivenMalformed(c) ==
    \/ c.op = "prune" /\ HasMalformed(c.patterns)
    \/ /\ c.op = "fit"
       /\ \/ HasMalformed(c.ignore_patterns)
          \/ \E k \in DOMAIN c.vectorizers : RuleMalformed(c.vectorizers[k])

C15_ModeIsAsConstructed ==
    /\ call.op = "new" => root.tuple_items = call.tuple_items
    /\ \A n \in Nodes(root) : n.tuple_items = root.tuple_items
\* C16: whatever extend, fit and prune have done to the tree, a prune that
\* raised half-way included, the required set of every node that has one is
\* a subset of the keys of its properties.
C16_RequiredAreProperties ==
    \A n \in Nodes(root) : ~n.required_none => n.required \subseteq DOMAIN n.properties

\* prune has dropped the property q of a root that every document had
\* reached as an object with the key q, and the root keeps p as required.
C16_Witness ==
    /\ call.op = "prune" /\ ~call.raised
    /\ seen # <<>>
    /\ \A i \in DOMAIN seen : seen[i].k = "dict" /\ "q" \in DOMAIN seen[i].v
    /\ \E k \in DOMAIN call.paths : call.paths[k] = NodeEntry(<<"root", "q">>)
    /\ DOMAIN root.properties = {"p"}
    /\ root.required = {"p"}
\* C17: a prune with well-formed patterns, in either array mode, returns
\* without raising and leaves below the root no node whose path matches a
\* pattern and no node without types.
C17_ChildrenArePruned ==
    (call.op = "prune" /\ ~GivenMalformed(call)) =>
        /\ ~call.raised
        /\ \A n \in Nodes(root) \ {root} :
             /\ n.type # {}
             /\ ~hasmatch(JoinStr(n.path), call.patterns)
\* C18: a transform of a fitted tree in tuple mode returns without raising,
\* and a column of the subtree of items[j] of a node is set in row r exactly
\* when row r's document has at the node an array whose element at position
\* j gives that column when items[j] transforms it alone.
C18_TupleItemsByPosition ==
    (Transformed /\ root.tuple_items) =>
        /\ ~call.X.raised
        /\ \A n \in Nodes(root) : \A j \in DOMAIN n.items :
             \A r \in 0..(Len(call.docs) - 1), c \in ColumnRange(n.items[j]) :
                 Hot(call.X, r, c) <=>
                     \E k \in DOMAIN ValuesAt(n, r) :
                         /\ ValuesAt(n, r)[k].k = "list"
                         /\ j <= Len(ValuesAt(n, r)[k].v)
                         /\ Hot(Alone(n.items[j], ValuesAt(n, r)[k].v[j]), 0, c)
\* The indicator names the self-step of fit collects at node n: for each type
\* in order, its type indicator when the node has several types and, for
\* object, the indicators of the optional properties.
RECURSIVE IndicatorsOf(_, _)
IndicatorsOf(n, types) ==
    IF types = <<>> THEN <<>>
    ELSE LET t == Head(types)
             opt == OptionalNames(n)
         IN (IF Cardinality(n.type) > 1 THEN <<IsName(JoinStr(n.path), t)>> ELSE <<>>)
            \o (IF t = OBJECT THEN [i \in DOMAIN opt |-> HasName(JoinStr(n.path), opt[i])]
                ELSE <<>>)
            \o IndicatorsOf(n, Tail(types))

\* C19: after every fit that returns, a fit of a fitted tree included, the
\* names of a node are those its self-step collected in that call: its
\* indicator names are the indicators of its current types and optional
\* properties, once each and in order, and no extractor name is there twice.
C19_NamesAreThoseOfThisFit ==
    (call.op = "fit" /\ ~call.raised) =>
        \A n \in Nodes(root) :
            /\ SelectSeq(n.feature_names, LAMBDA fn : fn.kind # "vec")
                  = IndicatorsOf(n, SortedTypes(n.type))
            /\ \A i, j \in DOMAIN n.feature_names :
                  (n.feature_names[i] = n.feature_names[j]) => i = j
====
